---- MODULE Spec2Model ----
(***************************************************************************)
(* A model of src/server.py: the two tool operations notion_search and     *)
(* notion_get_article, the helpers _process_blocks, _convert_to_markdown   *)
(* and _convert_to_text, and the upstream HTTP API as a nondeterministic   *)
(* environment.                                                            *)
(*                                                                         *)
(* Python values are encoded as follows.  A dict is a record (a function   *)
(* from key strings), a list is a sequence, a str is a string.  None is    *)
(* the string PyNone, which no upstream text equals.  A JSON value that is *)
(* not an object is the record [scalar |-> ...]; calling .get on it raises *)
(* AttributeError.  A computation that may raise yields an outcome record  *)
(* [ok |-> TRUE, value |-> v] or [ok |-> FALSE, exc |-> e].  A value       *)
(* handed back to the caller is tagged with its Python type:               *)
(* [type |-> "list" | "dict" | "str", value |-> v]; an exception leaving   *)
(* the operation is [type |-> "raised", value |-> e].                      *)
(***************************************************************************)
EXTENDS Integers, Sequences, FiniteSets, TLC

VARIABLES
    pc,         \* position of the single-threaded server
    op,         \* the operation being executed
    args,       \* its arguments
    client,     \* the httpx.Client scope of the call: "none", "open", "closed"
    http,       \* the upstream exchanges of the call, in order
    page_data,  \* notion_get_article's local page_data between its two GETs
    ret         \* what the call handed back to its caller

vars == <<pc, op, args, client, http, page_data, ret>>

----------------------------------------------------------------------------
(* Bounds of the model *)

MaxResults == 4
MaxBlocks == 3
MaxRawBlocks == 5

(* Program constants *)

PageSizeCap == 100
BlocksPageSize == 100
NOTION_API_URL == "https://api.notion.com/v1"
NOTION_API_TOKEN == "secret_token"

----------------------------------------------------------------------------
(* Python primitives *)

PyNone == "<None>"
EmptyDict == [k \in {} |-> PyNone]
NoValue == [type |-> "none"]

Min(a, b) == IF a < b THEN a ELSE b
Max(a, b) == IF a > b THEN a ELSE b

\* d.get(k, default)
Get(d, k, default) == IF k \in DOMAIN d THEN d[k] ELSE default

\* whether a JSON value is an object (has .get)
IsDict(v) == "scalar" \notin DOMAIN v

\* str(v) inside an f-string
Str(v) == IF v = PyNone THEN "None" ELSE v

\* "".join(parts)
RECURSIVE Join(_)
Join(parts) == IF parts = <<>> THEN "" ELSE Head(parts) \o Join(Tail(parts))

\* sep.join(parts)
RECURSIVE JoinSep(_, _)
JoinSep(sep, parts) ==
    IF parts = <<>> THEN ""
    ELSE IF Len(parts) = 1 THEN Head(parts)
    ELSE Head(parts) \o sep \o JoinSep(sep, Tail(parts))

\* lst[:n], with Python's meaning of a negative n
SliceTo(lst, n) ==
    IF n >= 0 THEN SubSeq(lst, 1, Min(n, Len(lst)))
    ELSE SubSeq(lst, 1, Max(Len(lst) + n, 0))

Ok(v) == [ok |-> TRUE, value |-> v]
Raise(e) == [ok |-> FALSE, exc |-> e]

AttributeError == [class |-> "AttributeError",
                   msg |-> "'str' object has no attribute 'get'"]
JSONDecodeError == [class |-> "JSONDecodeError",
                    msg |-> "Expecting value: line 1 column 1 (char 0)"]
TypeError == [class |-> "TypeError",
              msg |-> "sequence item 0: expected str instance, NoneType found"]

\* all sequences over S of length at most n
SeqsUpTo(S, n) == UNION {[1..k -> S] : k \in 0..n}

----------------------------------------------------------------------------
(* The upstream API: what it may answer.  An answer is a transport failure *)
(* or a response with a status code, a body text and, when the body parses *)
(* as JSON, the parsed value.                                              *)

TransportFailure == [kind |-> "transport", msg |-> "timed out"]

Response(status, text, parses, json) ==
    [kind |-> "response", status_code |-> status, text |-> text,
     parses |-> parses, json |-> json]

NotFound ==
    Response(404, "{\"object\": \"error\", \"status\": 404}", TRUE,
             [object |-> "error", status |-> 404, code |-> "object_not_found"])

RateLimited ==
    Response(429, "{\"object\": \"error\", \"status\": 429}", TRUE,
             [object |-> "error", status |-> 429, code |-> "rate_limited"])

NotJSON == Response(200, "<html>gateway</html>", FALSE, EmptyDict)

Failures == {TransportFailure, NotFound, RateLimited, NotJSON}

\* a page with a "title" property of two runs and two tags
PageA ==
    [object |-> "page", id |-> "p1",
     properties |->
        [title |-> [title |-> <<[plain_text |-> "Road"], [plain_text |-> "map"]>>],
         Tags |-> [multi_select |-> <<[name |-> "plan"], [name |-> "q3"]>>]],
     created_time |-> "2024-01-01", last_edited_time |-> "2024-03-01",
     url |-> "https://www.notion.so/p1"]

\* a page titled through "Name", with a tag that has no name
PageB ==
    [object |-> "page", id |-> "p2",
     properties |->
        [Name |-> [title |-> <<[plain_text |-> "Notes"]>>],
         Tags |-> [multi_select |-> <<[color |-> "red"]>>]],
     created_time |-> "2024-01-02", last_edited_time |-> "2024-03-02",
     url |-> "https://www.notion.so/p2"]

\* a page with no properties, times or url
PageC == [object |-> "page", id |-> "p3"]

\* an item that is not a page
DatabaseD == [object |-> "database", id |-> "d1",
              properties |-> [Name |-> [title |-> <<[plain_text |-> "Tasks"]>>]]]

\* an item that is not a JSON object
ScalarItem == [scalar |-> "oops"]

SearchItems == {PageA, PageB, PageC, DatabaseD, ScalarItem}

SearchResponses ==
    Failures
    \cup {Response(200, "{}", TRUE, [object |-> "list"])}
    \cup {Response(200, "{\"results\": [...]}", TRUE, [object |-> "list", results |-> r]) :
            r \in SeqsUpTo(SearchItems, MaxResults)}

PageResponses ==
    Failures
    \cup {Response(200, "{\"object\": \"page\"}", TRUE, p) :
            p \in {PageA, PageB, PageC, ScalarItem}}

\* the block kinds _process_blocks keeps (the list literal of the membership test)
SupportedTypes ==
    {"paragraph", "heading_1", "heading_2", "heading_3",
     "bulleted_list_item", "numbered_list_item", "quote", "code"}

RichText(text) == [rich_text |-> <<[plain_text |-> text]>>]

\* one raw block of each supported kind, and one of an unsupported kind
RawBlocks ==
    {[object |-> "block", id |-> "b1", type |-> "paragraph",
      paragraph |-> RichText("Hello")],
     [object |-> "block", id |-> "b2", type |-> "heading_1",
      heading_1 |-> RichText("intro")],
     [object |-> "block", id |-> "b3", type |-> "heading_2",
      heading_2 |-> RichText("Scope")],
     [object |-> "block", id |-> "b4", type |-> "heading_3",
      heading_3 |-> RichText("Notes")],
     [object |-> "block", id |-> "b5", type |-> "bulleted_list_item",
      bulleted_list_item |-> RichText("eggs")],
     [object |-> "block", id |-> "b6", type |-> "numbered_list_item",
      numbered_list_item |-> RichText("Buy milk")],
     [object |-> "block", id |-> "b7", type |-> "quote",
      quote |-> RichText("So it goes")],
     [object |-> "block", id |-> "b8", type |-> "code",
      code |-> RichText("x = 1")],
     [object |-> "block", id |-> "b9", type |-> "image",
      image |-> [caption |-> <<>>]]}

\* a block with no type and no content
TypelessBlock == [object |-> "block", id |-> "b10"]

\* an entry of the block list that is not a JSON object
ScalarBlock == [scalar |-> "oops"]

BlocksResponses ==
    Failures
    \cup {Response(200, "{}", TRUE, [object |-> "list"])}
    \cup {Response(200, "{\"results\": [...]}", TRUE, [object |-> "list", results |-> r]) :
            r \in SeqsUpTo(RawBlocks \cup {TypelessBlock, ScalarBlock}, MaxBlocks)}

----------------------------------------------------------------------------
(* Shaping *)

\* the title extraction of notion_search and notion_get_article
ExtractTitle(properties) ==
    LET title_property == Get(properties, "title", Get(properties, "Name", EmptyDict))
    IN  IF DOMAIN title_property # {} /\ "title" \in DOMAIN title_property
        THEN LET runs == Get(title_property, "title", <<>>)
             IN  Join([i \in 1..Len(runs) |-> Get(runs[i], "plain_text", "")])
        ELSE ""

\* the tag extraction of notion_search and notion_get_article
ExtractTags(properties) ==
    LET tags_property == Get(properties, "Tags", EmptyDict)
    IN  IF DOMAIN tags_property # {} /\ "multi_select" \in DOMAIN tags_property
        THEN LET options == Get(tags_property, "multi_select", <<>>)
             IN  [i \in 1..Len(options) |-> Get(options[i], "name", PyNone)]
        ELSE <<>>

\* one iteration of _process_blocks' loop: the blocks it appends for one raw block
ProcessBlock(block) ==
    LET block_type == Get(block, "type", PyNone)
        block_id == Get(block, "id", PyNone)
    IN  IF block_type \in SupportedTypes
        THEN LET content == Get(Get(block, block_type, EmptyDict), "rich_text", <<>>)
                 text == Join([i \in 1..Len(content) |->
                                  Get(content[i], "plain_text", "")])
             IN  <<[id |-> block_id, type |-> block_type, text |-> text]>>
        ELSE <<>>

\* ProcessFrom putting each block in front of the ones before it
RECURSIVE ProcessFromPrepending(_, _, _)
ProcessFromPrepending(blocks, i, processed_blocks) ==
    IF i > Len(blocks) THEN Ok(processed_blocks)
    ELSE IF ~IsDict(blocks[i]) THEN Raise(AttributeError)
    ELSE ProcessFromPrepending(blocks, i + 1, ProcessBlock(blocks[i]) \o processed_blocks)

\* _process_blocks(blocks, format): the loop over blocks, raising at the first
\* entry that has no .get
RECURSIVE ProcessFrom(_, _, _)
ProcessFrom(blocks, i, processed_blocks) ==
    IF i > Len(blocks) THEN Ok(processed_blocks)
    ELSE IF ~IsDict(blocks[i]) THEN Raise(AttributeError)
    ELSE ProcessFrom(blocks, i + 1, processed_blocks \o ProcessBlock(blocks[i]))

_process_blocks(blocks, format) == ProcessFrom(blocks, 1, <<>>)

----------------------------------------------------------------------------
(* Rendering *)

\* The grave accent cannot be written inside a string of this language: the
\* apostrophe stands for it, in the tag quotes and in the code fence.
Backtick == "'"
Fence == Backtick \o Backtick \o Backtick

\* MarkdownPiece with a counter for the numbered items
MarkdownPieceCounting(content, i) ==
    LET block_type == content[i].type
        text == content[i].text
        n == Cardinality({j \in 1..i : content[j].type = "numbered_list_item"})
    IN  CASE block_type = "paragraph" -> text \o "\n\n"
          [] block_type = "heading_1" -> "# " \o text \o "\n\n"
          [] block_type = "heading_2" -> "## " \o text \o "\n\n"
          [] block_type = "heading_3" -> "### " \o text \o "\n\n"
          [] block_type = "bulleted_list_item" -> "- " \o text \o "\n"
          [] block_type = "numbered_list_item" -> ToString(n) \o ". " \o text \o "\n"
          [] block_type = "quote" -> "> " \o text \o "\n\n"
          [] block_type = "code" -> Fence \o "\n" \o text \o "\n" \o Fence \o "\n\n"
          [] OTHER -> ""

\* the text appended to markdown for block i of the content
MarkdownPiece(content, i) ==
    LET block_type == content[i].type
        text == content[i].text
    IN  CASE block_type = "paragraph" -> text \o "\n\n"
          [] block_type = "heading_1" -> "# " \o text \o "\n\n"
          [] block_type = "heading_2" -> "## " \o text \o "\n\n"
          [] block_type = "heading_3" -> "### " \o text \o "\n\n"
          [] block_type = "bulleted_list_item" -> "- " \o text \o "\n"
          [] block_type = "numbered_list_item" -> "1. " \o text \o "\n"
          [] block_type = "quote" -> "> " \o text \o "\n\n"
          [] block_type = "code" -> Fence \o "\n" \o text \o "\n" \o Fence \o "\n\n"
          [] OTHER -> ""

\* the title line and the tags line of _convert_to_markdown
MarkdownHead(result) ==
    ("# " \o result.title \o "\n\n") \o
    (IF result.tags # <<>>
     THEN "Tags: "
          \o JoinSep(", ", [i \in 1..Len(result.tags) |->
                               Backtick \o Str(result.tags[i]) \o Backtick])
          \o "\n\n"
     ELSE "")

_convert_to_markdown(result) ==
    MarkdownHead(result)
    \o Join([i \in 1..Len(result.content) |-> MarkdownPiece(result.content, i)])

\* content.upper(), on the texts the upstream of this model serves
Upper(text) ==
    CASE text = "intro" -> "INTRO"
      [] text = "Scope" -> "SCOPE"
      [] text = "Notes" -> "NOTES"
      [] text = "Hello" -> "HELLO"
      [] text = "eggs" -> "EGGS"
      [] text = "Buy milk" -> "BUY MILK"
      [] text = "So it goes" -> "SO IT GOES"
      [] text = "x = 1" -> "X = 1"
      [] OTHER -> text

\* the text appended to text for block i of the content
TextPiece(content, i) ==
    LET block_type == content[i].type
        text == content[i].text
    IN  CASE block_type \in {"paragraph", "quote"} -> text \o "\n\n"
          [] block_type \in {"heading_1", "heading_2", "heading_3"} ->
                Upper(text) \o "\n\n"
          [] block_type = "bulleted_list_item" -> "* " \o text \o "\n"
          [] block_type = "numbered_list_item" -> "- " \o text \o "\n"
          [] block_type = "code" -> text \o "\n\n"
          [] OTHER -> ""

\* _convert_to_text; ", ".join raises on a tag that is None
_convert_to_text(result) ==
    IF \E i \in 1..Len(result.tags) : result.tags[i] = PyNone
    THEN Raise(TypeError)
    ELSE Ok((result.title \o "\n\n")
            \o (IF result.tags # <<>>
                THEN "Tags: " \o JoinSep(", ", result.tags) \o "\n\n"
                ELSE "")
            \o Join([i \in 1..Len(result.content) |-> TextPiece(result.content, i)]))

----------------------------------------------------------------------------
(* The try/except frame of the two operations *)

HTTPStatusError(response) ==
    [class |-> "HTTPStatusError", status_code |-> response.status_code,
     text |-> response.text,
     msg |-> "Client error '" \o ToString(response.status_code) \o "'"]
RequestError(failure) == [class |-> "RequestError", msg |-> failure.msg]

\* the value a return statement hands back
Returned(v, type) == [type |-> type, value |-> v]
ErrorDict(message) == Returned([error |-> message], "dict")

\* Except without its "except httpx.HTTPStatusError" clause
ExceptWithoutStatusClause(exc) ==
    IF exc.class = "RequestError"
    THEN ErrorDict("Request error: " \o exc.msg)
    ELSE ErrorDict("Unexpected error: " \o exc.msg)

\* Except without its final "except Exception" clause: the exception leaves the call
ExceptWithoutCatchAll(exc) ==
    IF exc.class = "HTTPStatusError"
    THEN ErrorDict("HTTP error: " \o ToString(exc.status_code) \o " - " \o exc.text)
    ELSE IF exc.class = "RequestError"
    THEN ErrorDict("Request error: " \o exc.msg)
    ELSE Returned(exc, "raised")

\* the three except clauses, in order; nothing else leaves the operation
Except(exc) ==
    IF exc.class = "HTTPStatusError"
    THEN ErrorDict("HTTP error: " \o ToString(exc.status_code) \o " - " \o exc.text)
    ELSE IF exc.class = "RequestError"
    THEN ErrorDict("Request error: " \o exc.msg)
    ELSE ErrorDict("Unexpected error: " \o exc.msg)

\* raise_for_status left out: no status raises
raise_for_status_omitted(response) == FALSE

\* response.raise_for_status(): whether it raises
raise_for_status(response) == response.status_code \notin 200..299

\* client.post / client.get, raise_for_status and response.json() on one answer
Receive(answer) ==
    IF answer.kind = "transport" THEN Raise(RequestError(answer))
    ELSE IF raise_for_status(answer) THEN Raise(HTTPStatusError(answer))
    ELSE IF ~answer.parses THEN Raise(JSONDecodeError)
    ELSE Ok(answer.json)

\* a client made without the with statement: nothing closes it
WithExitLeaks(c) == c

\* leaving the with block: httpx.Client.__exit__ closes the client
WithExit(c) == "closed"

\* the end of the try statement: a return inside it, or one of its except clauses
Finish(outcome) == IF outcome.ok THEN outcome.value ELSE Except(outcome.exc)

----------------------------------------------------------------------------
(* notion_search *)

Queries == {"roadmap"}
Limits == {-1, 0, 1, 2, 10, 100, 150}
SortOrders == {"asc", "desc"}

PageSize(limit) == Min(limit, PageSizeCap)

\* the request body of POST /search
Payload(query, limit, sort_order) ==
    [query |-> query,
     page_size |-> PageSize(limit),
     sort |-> [timestamp |-> "last_edited_time",
               direction |-> IF sort_order = "asc" THEN "ascending" ELSE "descending"],
     filter |-> [property |-> "object", value |-> "page"]]

\* the entries the loop over pages appends for one returned item
FormatPage(page) ==
    IF Get(page, "object", PyNone) # "page" THEN <<>>
    ELSE LET properties == Get(page, "properties", EmptyDict)
         IN  <<[id |-> Get(page, "id", PyNone),
                title |-> ExtractTitle(properties),
                created_time |-> Get(page, "created_time", PyNone),
                last_edited_time |-> Get(page, "last_edited_time", PyNone),
                tags |-> ExtractTags(properties),
                url |-> Get(page, "url", PyNone)]>>

\* the loop over pages, raising at the first item that has no .get
RECURSIVE FormatFrom(_, _, _)
FormatFrom(pages, i, formatted_results) ==
    IF i > Len(pages) THEN Ok(formatted_results)
    ELSE IF ~IsDict(pages[i]) THEN Raise(AttributeError)
    ELSE FormatFrom(pages, i + 1, formatted_results \o FormatPage(pages[i]))

\* Trim left out
TrimNothing(formatted_results, limit) == formatted_results

\* "Trim results if they exceed the limit"
Trim(formatted_results, limit) ==
    IF Len(formatted_results) > limit
    THEN SliceTo(formatted_results, limit)
    ELSE formatted_results

\* from result = response.json() to the return statement
ShapeSearch(result, limit) ==
    LET formatted == FormatFrom(Get(result, "results", <<>>), 1, <<>>)
    IN  IF formatted.ok
        THEN Ok(Returned(Trim(formatted.value, limit), "list"))
        ELSE formatted

\* the call arrives: the payload is built and the client scope is entered
SearchCall ==
    /\ pc = "idle"
    /\ \E query \in Queries, limit \in Limits, sort_order \in SortOrders :
          args' = [query |-> query, limit |-> limit, sort_order |-> sort_order]
    /\ op' = "notion_search"
    /\ client' = "open"
    /\ http' = <<>>
    /\ pc' = "search_post"
    /\ UNCHANGED <<page_data, ret>>

\* POST /search is sent, the upstream answers, and the call returns
SearchPost ==
    /\ pc = "search_post"
    /\ \E answer \in SearchResponses :
          LET request == [method |-> "POST", url |-> NOTION_API_URL \o "/search",
                          json |-> Payload(args.query, args.limit, args.sort_order)]
              response == Receive(answer)
              outcome == IF response.ok THEN ShapeSearch(response.value, args.limit)
                         ELSE response
          IN  /\ http' = Append(http, [request |-> request, answer |-> answer])
              /\ ret' = Finish(outcome)
    /\ client' = WithExit(client)
    /\ pc' = "returned"
    /\ UNCHANGED <<op, args, page_data>>

----------------------------------------------------------------------------
(* notion_get_article *)

ArticleIds == {"abc123"}
Formats == {"json", "markdown", "text", "html"}

\* FormatResult putting the rendered string in the content field of the object
FormatResultInContent(result, format) ==
    IF format = "markdown"
    THEN Ok(Returned([result EXCEPT !.content = _convert_to_markdown(result)], "dict"))
    ELSE IF format = "text"
    THEN LET text == _convert_to_text(result)
         IN  IF text.ok
             THEN Ok(Returned([result EXCEPT !.content = text.value], "dict"))
             ELSE text
    ELSE Ok(Returned(result, "dict"))

\* the return statements that end the try block
FormatResult(result, format) ==
    IF format = "markdown" THEN Ok(Returned(_convert_to_markdown(result), "str"))
    ELSE IF format = "text"
    THEN LET text == _convert_to_text(result)
         IN  IF text.ok THEN Ok(Returned(text.value, "str")) ELSE text
    ELSE Ok(Returned(result, "dict"))

\* from "Extract page properties" to the return statement
Assemble(article_id, format, page, blocks_data) ==
    IF ~IsDict(page) THEN Raise(AttributeError)
    ELSE LET properties == Get(page, "properties", EmptyDict)
             content == _process_blocks(Get(blocks_data, "results", <<>>), format)
         IN  IF ~content.ok THEN content
             ELSE FormatResult([id |-> article_id,
                                title |-> ExtractTitle(properties),
                                created_time |-> Get(page, "created_time", PyNone),
                                last_edited_time |-> Get(page, "last_edited_time", PyNone),
                                tags |-> ExtractTags(properties),
                                url |-> Get(page, "url", PyNone),
                                content |-> content.value],
                               format)

\* the call arrives: the credential is checked and the client scope is entered
GetArticleCall ==
    /\ pc = "idle"
    /\ \E article_id \in ArticleIds, format \in Formats :
          args' = [article_id |-> article_id, format |-> format]
    /\ op' = "notion_get_article"
    /\ http' = <<>>
    /\ IF NOTION_API_TOKEN = ""
       THEN /\ ret' = ErrorDict("Notion API credentials not configured")
            /\ pc' = "returned"
            /\ UNCHANGED client
       ELSE /\ client' = "open"
            /\ pc' = "get_page"
            /\ UNCHANGED ret
    /\ UNCHANGED page_data

\* GET /pages/{id} is sent and the upstream answers
GetPage ==
    /\ pc = "get_page"
    /\ \E answer \in PageResponses :
          LET request == [method |-> "GET",
                          url |-> NOTION_API_URL \o "/pages/" \o args.article_id]
              response == Receive(answer)
          IN  /\ http' = Append(http, [request |-> request, answer |-> answer])
              /\ IF response.ok
                 THEN /\ page_data' = response.value
                      /\ pc' = "get_blocks"
                      /\ UNCHANGED <<ret, client>>
                 ELSE /\ ret' = Finish(response)
                      /\ client' = WithExit(client)
                      /\ pc' = "returned"
                      /\ UNCHANGED page_data
    /\ UNCHANGED <<op, args>>

\* GET /blocks/{id}/children is sent, the upstream answers, and the call returns
GetBlocks ==
    /\ pc = "get_blocks"
    /\ \E answer \in BlocksResponses :
          LET request == [method |-> "GET",
                          url |-> NOTION_API_URL \o "/blocks/" \o args.article_id
                                  \o "/children?page_size=" \o ToString(BlocksPageSize)]
              response == Receive(answer)
              outcome == IF response.ok
                         THEN Assemble(args.article_id, args.format, page_data,
                                       response.value)
                         ELSE response
          IN  /\ http' = Append(http, [request |-> request, answer |-> answer])
              /\ ret' = Finish(outcome)
    /\ client' = WithExit(client)
    /\ pc' = "returned"
    /\ UNCHANGED <<op, args, page_data>>

----------------------------------------------------------------------------
(* The server *)

Init ==
    /\ pc = "idle"
    /\ op = "none"
    /\ args = EmptyDict
    /\ client = "none"
    /\ http = <<>>
    /\ page_data = EmptyDict
    /\ ret = NoValue

\* the caller has the returned value; the server waits for the next call
Return ==
    /\ pc = "returned"
    /\ pc' = "idle"
    /\ op' = "none"
    /\ args' = EmptyDict
    /\ client' = "none"
    /\ http' = <<>>
    /\ page_data' = EmptyDict
    /\ ret' = NoValue

Next == SearchCall \/ SearchPost \/ GetArticleCall \/ GetPage \/ GetBlocks \/ Return

Spec == Init /\ [][Next]_vars

----------------------------------------------------------------------------
(* _process_blocks called on its own, as a pure function of its argument *)

\* _process_blocks(blocks) is called and returns
ProcessBlocksCall ==
    /\ pc = "idle"
    /\ \E blocks \in SeqsUpTo(RawBlocks, MaxRawBlocks) :
          LET outcome == _process_blocks(blocks, "json")
          IN  /\ args' = [blocks |-> blocks, format |-> "json"]
              /\ ret' = IF outcome.ok THEN Returned(outcome.value, "list")
                        ELSE Returned(outcome.exc, "raised")
    /\ op' = "_process_blocks"
    /\ pc' = "returned"
    /\ UNCHANGED <<client, http, page_data>>

NextBlocks == ProcessBlocksCall

SpecBlocks == Init /\ [][NextBlocks]_vars

----------------------------------------------------------------------------
(* Vocabulary of the properties *)

\* an object whose only field is error
IsError(r) == r.type = "dict" /\ DOMAIN r.value = {"error"}

\* the upstream request failed: no response, or a non-success status
Failed(answer) ==
    \/ answer.kind = "transport"
    \/ answer.status_code < 200
    \/ answer.status_code > 299

SummaryFields == {"id", "title", "created_time", "last_edited_time", "tags", "url"}

InSearch == op = "notion_search"
InGetArticle == op = "notion_get_article"
HasReturned == pc = "returned"

\* the first n entries of s; none when n is below 1
Take(s, n) == SubSeq(s, 1, Min(Max(n, 0), Len(s)))

\* the items of the search answer whose object kind is "page"
IsPageItem(item) == "object" \in DOMAIN item /\ item.object = "page"
UpstreamPages == SelectSeq(Get(http[1].answer.json, "results", <<>>), IsPageItem)

----------------------------------------------------------------------------
(* Error handling *)

\* C1: notion_get_article fails as one unit.  When the child-blocks GET is
\* answered with a non-success status S, the call returns the object whose only
\* field is error, with the message "HTTP error: S - <body>"; and whenever
\* either GET failed, the call returns an error object, never an ArticleDetail
\* or a rendered string.
C1_FailsAsOneUnit ==
    (InGetArticle /\ HasReturned) =>
        /\ \A i \in 1..Len(http) : Failed(http[i].answer) => IsError(ret)
        /\ (Len(http) = 2 /\ http[2].answer.kind = "response" /\ Failed(http[2].answer))
              => ret = [type |-> "dict",
                        value |-> [error |-> "HTTP error: "
                                             \o ToString(http[2].answer.status_code)
                                             \o " - " \o http[2].answer.text]]

\* the page GET succeeded, the blocks GET was answered 404, the call returned
C1_Witness ==
    /\ InGetArticle /\ HasReturned /\ Len(http) = 2
    /\ http[1].answer.status_code = 200 /\ http[1].answer.json = PageA
    /\ http[2].answer = NotFound
    /\ ret.value = [error |-> "HTTP error: 404 - {\"object\": \"error\", \"status\": 404}"]

\* the answer cannot be shaped or rendered: it is no JSON, an entry of its list
\* or the page itself is no JSON object, or a tag without a name meets text mode
Unshapeable ==
    LET last == http[Len(http)].answer
    IN  /\ last.kind = "response"
        /\ \/ ~last.parses
           \/ \E i \in 1..Len(Get(last.json, "results", <<>>)) :
                 "scalar" \in DOMAIN last.json.results[i]
           \/ InGetArticle /\ Len(http) = 2 /\ "scalar" \in DOMAIN http[1].answer.json
           \/ InGetArticle /\ Len(http) = 2 /\ args.format = "text"
              /\ http[1].answer.json = PageB

\* C2: neither operation raises past its boundary.  A returned call hands back
\* a value, never an exception: the shaped payload, or an object whose only
\* field is error; and a non-success status, a transport failure and a failure
\* while shaping or rendering each end in such an error object.
C2_NeverRaises ==
    ((InSearch \/ InGetArticle) /\ HasReturned) =>
        /\ ret.type \in {"list", "dict", "str"}
        /\ \/ IsError(ret)
           \/ /\ InSearch /\ ret.type = "list"
              /\ \A i \in 1..Len(ret.value) : DOMAIN ret.value[i] = SummaryFields
           \/ /\ InGetArticle /\ ret.type = "dict"
              /\ DOMAIN ret.value = SummaryFields \cup {"content"}
           \/ InGetArticle /\ ret.type = "str"
        /\ Failed(http[Len(http)].answer) => IsError(ret)
        /\ Unshapeable => IsError(ret)

\* rendering as text raised on a tag without a name, and the call returned an
\* error object
C2_Witness ==
    /\ InGetArticle /\ HasReturned /\ Len(http) = 2 /\ args.format = "text"
    /\ http[1].answer.json = PageB /\ ~Failed(http[2].answer) /\ http[2].answer.parses
    /\ ret = [type |-> "dict",
              value |-> [error |-> "Unexpected error: sequence item 0: expected str instance, NoneType found"]]

\* C9: no retries, fixed order.  A notion_search call issues one POST /search;
\* a notion_get_article call issues GET /pages/{id} first and GET
\* /blocks/{id}/children only after the page GET succeeded, each at most once;
\* a failed request is the last one of its call, and the call returns an error.
C9_NoRetryFixedOrder ==
    /\ InSearch =>
          /\ Len(http) <= 1
          /\ HasReturned => Len(http) = 1
          /\ \A i \in 1..Len(http) :
                /\ http[i].request.method = "POST"
                /\ http[i].request.url = "https://api.notion.com/v1/search"
    /\ InGetArticle =>
          /\ Len(http) <= 2
          /\ Len(http) >= 1 =>
                http[1].request = [method |-> "GET",
                                   url |-> "https://api.notion.com/v1/pages/"
                                           \o args.article_id]
          /\ Len(http) = 2 =>
                /\ http[2].request = [method |-> "GET",
                                      url |-> "https://api.notion.com/v1/blocks/"
                                              \o args.article_id
                                              \o "/children?page_size=100"]
                /\ ~Failed(http[1].answer)
    /\ (InSearch \/ InGetArticle) =>
          \A i \in 1..Len(http) :
              Failed(http[i].answer) => i = Len(http) /\ HasReturned /\ IsError(ret)

\* the page GET failed and the call returned without asking for the blocks
C9_Witness ==
    /\ InGetArticle /\ HasReturned /\ Len(http) = 1
    /\ http[1].answer = TransportFailure
    /\ ret.value = [error |-> "Request error: timed out"]

\* C10: the client scope.  Each call of the two operations has its httpx client
\* open while it runs and closed once it has returned, whether it returned a
\* payload or an error object.
C10_ClientScopeReleased ==
    (InSearch \/ InGetArticle) =>
        /\ HasReturned => client = "closed"
        /\ ~HasReturned => client = "open"

\* a call that failed while shaping has returned, its client closed
C10_Witness ==
    /\ InSearch /\ HasReturned /\ client = "closed"
    /\ http[1].answer.kind = "response" /\ http[1].answer.status_code = 200
    /\ http[1].answer.parses
    /\ Get(http[1].answer.json, "results", <<>>) = <<PageA, ScalarItem>>
    /\ IsError(ret)
    /\ ret.value = [error |-> "Unexpected error: 'str' object has no attribute 'get'"]

----------------------------------------------------------------------------
(* notion_search: page size and truncation *)

\* C3: for a limit in 1..100, the page_size sent upstream is min(limit, 100)
\* and a successful search returns at most limit items, whatever the number of
\* items in the answer.
C3_AtMostLimit ==
    (InSearch /\ args.limit \in 1..100) =>
        /\ \A i \in 1..Len(http) :
              http[i].request.json.page_size =
                  (IF args.limit < 100 THEN args.limit ELSE 100)
        /\ (HasReturned /\ ret.type = "list") => Len(ret.value) <= args.limit

\* limit 2, an answer of four pages, two entries returned
C3_Witness ==
    /\ InSearch /\ HasReturned /\ args.limit = 2
    /\ http[1].request.json.page_size = 2
    /\ http[1].answer.kind = "response" /\ http[1].answer.status_code = 200
    /\ http[1].answer.parses /\ Len(UpstreamPages) = 4
    /\ ret.type = "list" /\ Len(ret.value) = 2

\* C4: for every integer limit, a successful search returns at most limit
\* entries.  No sequence has fewer than 0 entries, so for a limit below 0 the
\* claim is read here in its weakest form, "no more than 0 entries"; the claim
\* as written is stronger than this formula.
C4_TruncatedToLimit ==
    (InSearch /\ HasReturned /\ ret.type = "list") =>
        Len(ret.value) <= Max(args.limit, 0)

\* the entry the claim expects for one upstream page
ExpectedSummary(page) ==
    LET properties == Get(page, "properties", EmptyDict)
    IN  [id |-> Get(page, "id", PyNone),
         title |-> ExtractTitle(properties),
         created_time |-> Get(page, "created_time", PyNone),
         last_edited_time |-> Get(page, "last_edited_time", PyNone),
         tags |-> ExtractTags(properties),
         url |-> Get(page, "url", PyNone)]

\* C5: a successful search returns exactly the first limit entries of the
\* upstream items whose object kind is "page", in the upstream's order, each
\* with its six fields taken from its upstream item.
C5_FirstLimitPages ==
    (InSearch /\ HasReturned /\ ret.type = "list") =>
        ret.value = Take([i \in 1..Len(UpstreamPages) |->
                            ExpectedSummary(UpstreamPages[i])],
                         args.limit)

----------------------------------------------------------------------------
(* notion_get_article: the shape of the result *)

\* C6: the format decides the shape of a successful notion_get_article.  With
\* json it is the ArticleDetail object, its content a sequence of shaped blocks;
\* with markdown or text it is one string, never the object.
C6_ShapeByFormat ==
    (InGetArticle /\ HasReturned /\ ~IsError(ret)) =>
        /\ args.format = "json" =>
              /\ ret.type = "dict"
              /\ DOMAIN ret.value = SummaryFields \cup {"content"}
              /\ \A i \in 1..Len(ret.value.content) :
                    DOMAIN ret.value.content[i] = {"id", "type", "text"}
        /\ args.format \in {"markdown", "text"} => ret.type = "str"

\* a markdown call that returned the rendered string
C6_Witness ==
    /\ InGetArticle /\ HasReturned /\ args.format = "markdown"
    /\ Len(http) = 2 /\ http[1].answer.json = PageA
    /\ ret.type = "str"
    /\ ret.value = "# Roadmap\n\nTags: 'plan', 'q3'\n\n## Scope\n\nHello\n\n"

\* the kinds the claim lists
IsSupportedBlock(block) ==
    block.type \in {"paragraph", "heading_1", "heading_2", "heading_3",
                    "bulleted_list_item", "numbered_list_item", "quote", "code"}

\* C7: _process_blocks is an order-preserving filter.  Its result holds the
\* blocks of the eight supported kinds, in the order of the input, and no block
\* of another kind; it raises nothing.
C7_OrderPreservingFilter ==
    (op = "_process_blocks" /\ HasReturned) =>
        /\ ret.type = "list"
        /\ LET kept == SelectSeq(args.blocks, IsSupportedBlock)
           IN  /\ Len(ret.value) = Len(kept)
               /\ \A i \in 1..Len(kept) :
                     /\ ret.value[i].id = kept[i].id
                     /\ ret.value[i].type = kept[i].type

\* five raw blocks, two of them images, three shaped blocks in the input's order
C7_Witness ==
    /\ op = "_process_blocks" /\ HasReturned
    /\ Len(args.blocks) = 5
    /\ [i \in 1..5 |-> args.blocks[i].type]
          = <<"quote", "image", "numbered_list_item", "image", "paragraph">>
    /\ ret.value = <<[id |-> "b7", type |-> "quote", text |-> "So it goes"],
                     [id |-> "b6", type |-> "numbered_list_item", text |-> "Buy milk"],
                     [id |-> "b1", type |-> "paragraph", text |-> "Hello"]>>

\* the markdown the claim expects for the blocks from i on: "1. " before every
\* numbered item
RECURSIVE ExpectedMarkdownFrom(_, _)
ExpectedMarkdownFrom(content, i) ==
    IF i > Len(content) THEN ""
    ELSE (IF content[i].type = "numbered_list_item"
          THEN "1. " \o content[i].text \o "\n"
          ELSE MarkdownPiece(content, i))
         \o ExpectedMarkdownFrom(content, i + 1)

\* C8: markdown rendering writes the literal prefix "1. " before every
\* numbered_list_item, whatever its position: after the title and tags lines,
\* the rendered string is the blocks' texts in order, each numbered item as
\* "1. {text}\n".
C8_NumberedItemsLiteralOne ==
    (InGetArticle /\ HasReturned /\ args.format = "markdown" /\ ret.type = "str") =>
        LET properties == Get(http[1].answer.json, "properties", EmptyDict)
            content == _process_blocks(Get(http[2].answer.json, "results", <<>>),
                                       "markdown").value
        IN  ret.value = MarkdownHead([title |-> ExtractTitle(properties),
                                      tags |-> ExtractTags(properties)])
                        \o ExpectedMarkdownFrom(content, 1)

\* an untitled page of three blocks, the first and the third numbered items
C8_Witness ==
    /\ InGetArticle /\ HasReturned /\ args.format = "markdown"
    /\ Len(http) = 2 /\ http[1].answer.json = PageC
    /\ ret.type = "str"
    /\ ret.value = "# \n\n1. Buy milk\n- eggs\n1. Buy milk\n"

====
